---------------------------- MODULE Spec2Model ----------------------------
(***************************************************************************)
(* A model of report_generator.py: the options resolver, the table and     *)
(* figure-row layouts, the placeholder substitution of both backends and   *)
(* the two render entry points with their temp-file and Word-handle        *)
(* lifecycles.  Python dicts are functions from key strings to values; a   *)
(* key that is absent from a dict is absent from the function's DOMAIN.    *)
(***************************************************************************)
EXTENDS Integers, Sequences, FiniteSets, TLC

(***************************************************************************)
(* State.  Each part of the model has its own variables; a specification   *)
(* runs one part and leaves the others idle.                               *)
(***************************************************************************)
VARIABLES
    \* Part 1, _merge_options
    callerOptions,  \* the options object the caller passed (None or a dict)
    opts,           \* the dict returned by the first _merge_options call
    opts2,          \* the dict returned by _merge_options(opts)
    optPc,          \* "idle" | "input" | "resolved" | "again"
    \* Part 2, figure row layout
    figIn,          \* the normalized figures: dicts with Path and, optionally, RowIndex
    figRows,        \* the rows emitted, each the sequence of its figures
    figPc,          \* "idle" | "input" | "html" | "word" | "range"
    \* Part 3, table layout
    tableDef,       \* the table spec: a dict with optional Header and Rows
    grid,           \* the Tables.Add call made: [NumRows, NumColumns], or NoGrid
    cells,          \* the Word cell writes that succeeded
    tabErr,         \* TRUE when Word rejected a call (no such cell, no column)
    htmlRows,       \* the <tr> elements emitted: [tag, cells]; <<>> is the string ""
    tabPc,          \* "idle" | "input" | "word" | "range" | "html"
    \* Part 4, placeholder substitution over text
    pieces,         \* the text as written by the author: literal runs and tokens
    mapping,        \* options["Placeholders"] in iteration order: <<[name, payload]>>
    content,        \* the markup string / the Word document text
    subIdx,         \* the placeholder the loop is at
    searchStart,    \* the Start of search_range (Word)
    replaced,       \* Word: the replacements made so far for the placeholder at subIdx
    occAtStart,     \* Word: the matches its token had when its loop began
    subPc,          \* "idle" | "input" | "markup" | "html" | "word" | "worddone" | "wordraised"
    \* Part 5, the render calls
    sections,       \* the sections argument: each a dict with optional Figures
    placeholders,   \* the payloads of options["Placeholders"], in iteration order
    backend,        \* "none" | "html" | "word"
    pc,             \* the statement the call is at
    secIdx,         \* the section the body loop is at
    phIdx,          \* the placeholder the substitution loop is at
    figs,           \* the figures argument of the running figure routine
    figIdx,         \* the figure _normalize_figures is at
    temp_files,     \* the temp_files list of the running figure routine
    delIdx,         \* the path _delete_temp_files is at
    figCtx,         \* who called the figure routine: "section" | "placeholder"
    exc,            \* the exception in flight or raised: "none" or its type
    excAt,          \* where it was raised
    fs,             \* the temporary image files that exist on disk
    created,        \* the temporary image files this call created
    wordState,      \* "none" | "running" | "quit" (Quit was called)
    docState,       \* "none" | "open" | "closed"
    events,         \* Word: the steps completed and the calls made, in order
    outFile,        \* HTML output file: "none" | "partial" | "written"
    refs,           \* HTML: the temporary files the markup refers to by path
    result,         \* "idle" | "running" | "returned" | "raised"
    \* Part 6, the block sequence of a report
    secList,        \* the sections argument: dicts with optional Title and groups
    blkOptions,     \* the resolved options the cover reads (Author)
    emitted,        \* the blocks written to the output, in order
    blkIdx,         \* the section the loop is at
    blkPc           \* "idle" | "input" | "html" | "htmldone" | "word" | "worddone"

optVars == <<callerOptions, opts, opts2, optPc>>
figVars == <<figIn, figRows, figPc>>
tabVars == <<tableDef, grid, cells, tabErr, htmlRows, tabPc>>
subVars == <<pieces, mapping, content, subIdx, searchStart, replaced, occAtStart, subPc>>
callVars ==
    <<sections, placeholders, backend, pc, secIdx, phIdx, figs, figIdx, temp_files,
      delIdx, figCtx, exc, excAt, fs, created, wordState, docState, events, outFile,
      refs, result>>

blkVars == <<secList, blkOptions, emitted, blkIdx, blkPc>>

vars == <<optVars, figVars, tabVars, subVars, callVars, blkVars>>

(***************************************************************************)
(* Python values shared by all parts.                                      *)
(***************************************************************************)
\* Python's None, as a dict no caller can build (its key is not an option).
None == [None |-> TRUE]

\* The empty dict {}.
EmptyDict == [k \in {} |-> 0]

\* dict.setdefault(key, value): the value is stored only if the key is absent.
setdefault(d, key, value) == IF key \in DOMAIN d THEN d ELSE d @@ (key :> value)

\* key in d; every value stored in these dicts is truthy, so d.get(key) is
\* truthy exactly when the key is present.
HasKey(d, key) == key \in DOMAIN d

(***************************************************************************)
(* PART 1.  _merge_options (report_generator.py:87-104).                   *)
(***************************************************************************)
\* LineSpacing is kept in hundredths: 1.15 is 115.
LineSpacingDefault == 115
SpaceDefault == 6
MarginDefault == 72
HeadingSizeDefault == 16
BodySizeDefault == 11

\* Lines 99-103: the four setdefault calls on opts["Margins"].
FillMargins(margins) ==
    LET m1 == setdefault(margins, "Top", MarginDefault)
        m2 == setdefault(m1, "Bottom", MarginDefault)
        m3 == setdefault(m2, "Left", MarginDefault)
    IN  setdefault(m3, "Right", MarginDefault)

\* Lines 88-98: the shallow copy and the top-level setdefault calls.
TopLevelDefaults(options) ==
    LET o0 == IF options = None \/ DOMAIN options = {} THEN EmptyDict ELSE options
        o1 == setdefault(o0, "AddPageNums", TRUE)
        o2 == setdefault(o1, "HeadingFont", [Name |-> "Arial", Size |-> HeadingSizeDefault])
        o3 == setdefault(o2, "BodyFont", [Name |-> "Arial", Size |-> BodySizeDefault])
        o4 == setdefault(o3, "LineSpacing", LineSpacingDefault)
        o5 == setdefault(o4, "SpaceBefore", SpaceDefault)
        o6 == setdefault(o5, "SpaceAfter", SpaceDefault)
        o7 == setdefault(o6, "Margins", EmptyDict)
    IN  setdefault(o7, "TableStyle", "Table Grid")

\* A resolver that also converts LineSpacing to points (the * 12 of
\* _apply_paragraph_formatting moved into the merge).
MergeScaled(options) ==
    LET o == TopLevelDefaults(options)
    IN  [o EXCEPT !["Margins"] = FillMargins(o["Margins"]),
                  !["LineSpacing"] = o["LineSpacing"] * 12]

\* The value _merge_options returns.
_merge_options(options) ==
    LET o == TopLevelDefaults(options)
    IN  [o EXCEPT !["Margins"] = FillMargins(o["Margins"])]

\* What the call leaves in the caller's object: options.copy() is shallow, so
\* a Margins dict the caller supplied is the very dict lines 100-103 fill.
CallerAfterMerge(options) ==
    IF options # None /\ HasKey(options, "Margins")
    THEN [options EXCEPT !["Margins"] = FillMargins(options["Margins"])]
    ELSE options

\* The caller's inputs: every recognized field absent or set, every nested
\* group absent, empty, partial or complete.
FontChoices ==
    {[Name |-> "Times"], [Size |-> 20], [Name |-> "Times", Size |-> 20]}

MarginKeys == {"Top", "Bottom", "Left", "Right"}

MarginChoices == UNION {[K -> {36}] : K \in SUBSET MarginKeys}

Opt(present, key, value) == IF present THEN key :> value ELSE EmptyDict

OptionInputs ==
    {None} \cup
    { Opt(hf # None, "HeadingFont", hf) @@ Opt(bf # None, "BodyFont", bf)
        @@ Opt(mg # None, "Margins", mg) @@ Opt(sc[1], "AddPageNums", FALSE)
        @@ Opt(sc[2], "LineSpacing", 200) @@ Opt(sc[3], "SpaceBefore", 0)
        @@ Opt(sc[3], "SpaceAfter", 0) @@ Opt(sc[4], "TableStyle", "")
        @@ Opt(sc[4], "Author", "A") :
        hf \in FontChoices \cup {None}, bf \in FontChoices \cup {None},
        mg \in MarginChoices \cup {None}, sc \in [1..4 -> BOOLEAN] }

\* options = _merge_options(options), as both entry points call it.
Resolve ==
    /\ optPc = "input"
    /\ opts' = _merge_options(callerOptions)
    /\ callerOptions' = CallerAfterMerge(callerOptions)
    /\ optPc' = "resolved"
    /\ UNCHANGED <<opts2, figVars, tabVars, subVars, callVars, blkVars>>

\* _merge_options applied to its own result.
ResolveAgain ==
    /\ optPc = "resolved"
    /\ opts2' = _merge_options(opts)
    /\ opts' = CallerAfterMerge(opts)
    /\ optPc' = "again"
    /\ UNCHANGED <<callerOptions, figVars, tabVars, subVars, callVars, blkVars>>

OptNext == Resolve \/ ResolveAgain

\* The fields _merge_options defaults (lines 90-97).
DefaultedKeys ==
    {"AddPageNums", "HeadingFont", "BodyFont", "LineSpacing", "SpaceBefore",
     "SpaceAfter", "Margins", "TableStyle"}

FullyPopulated(o) ==
    /\ DefaultedKeys \subseteq DOMAIN o
    /\ MarginKeys \subseteq DOMAIN o["Margins"]
    /\ {"Name", "Size"} \subseteq DOMAIN o["HeadingFont"]
    /\ {"Name", "Size"} \subseteq DOMAIN o["BodyFont"]

\* C8: _merge_options is idempotent: merging a merged options dict returns
\* a dict equal to it, for every input (any subset of fields, any partial
\* nested group).
C8_Idempotent == optPc = "again" => opts2 = opts

\* C8 witness: the second merge has run on an input with a partial nested
\* group and an explicit falsy scalar.
C8_Witness ==
    /\ optPc = "again"
    /\ callerOptions # None
    /\ HasKey(callerOptions, "HeadingFont")
    /\ DOMAIN callerOptions["HeadingFont"] = {"Name"}
    /\ HasKey(callerOptions, "SpaceBefore")
    /\ opts2["SpaceBefore"] = 0

\* C9: after _merge_options every defaulted field is present and Margins,
\* HeadingFont and BodyFont are fully populated records.
C9_FullyPopulated == optPc \in {"resolved", "again"} => FullyPopulated(opts)

\* C15: option resolution leaves the caller's input unchanged: no step
\* changes a field or a nested record of the options object the caller
\* passed.
C15_CallerInputUnchanged == [][callerOptions' = callerOptions]_vars

(***************************************************************************)
(* PART 2.  Figure row layout: the grouping of _render_figures (574-577),  *)
(* _add_figures (241-244) and _add_figures_at_range (365-368).             *)
(***************************************************************************)
MaxFigures == 4

Range(s) == {s[i] : i \in DOMAIN s}

\* fig.get("RowIndex", 1) or 1
RowIndexOf(fig) ==
    LET v == IF HasKey(fig, "RowIndex") THEN fig["RowIndex"] ELSE 1
    IN  IF v = 0 THEN 1 ELSE v

\* row_indices = [fig.get("RowIndex", 1) or 1 for fig in normalized]
row_indices(normalized) == [i \in DOMAIN normalized |-> RowIndexOf(normalized[i])]

RECURSIVE Ascending(_)
Ascending(S) ==
    IF S = {} THEN <<>>
    ELSE LET m == CHOOSE x \in S : \A y \in S : x <= y
         IN  <<m>> \o Ascending(S \ {m})

RECURSIVE FirstSeen(_)
FirstSeen(s) ==
    IF s = <<>> THEN <<>>
    ELSE LET rest == FirstSeen(SelectSeq(Tail(s), LAMBDA x : x # Head(s)))
         IN  <<Head(s)>> \o rest

\* The distinct row indices in the order they first occur (no sort).
DistinctUnsorted(indices) == FirstSeen(indices)

\* sorted(set(row_indices))
SortedDistinct(indices) == Ascending(Range(indices))

\* [fig for fig, idx in zip(normalized, row_indices) if idx == row]
row_figures(normalized, row) ==
    LET idx == row_indices(normalized)
        keep == SelectSeq([i \in DOMAIN normalized |-> i], LAMBDA i : idx[i] = row)
    IN  [k \in DOMAIN keep |-> normalized[keep[k]]]

\* The rows the loop "for row in sorted(set(row_indices))" hands to the row
\* builder, in the order it hands them.
FigureRows(normalized) ==
    LET order == SortedDistinct(row_indices(normalized))
    IN  [k \in DOMAIN order |-> row_figures(normalized, order[k])]

\* Resolved figures: Path is the figure's position in the input; RowIndex is
\* absent, falsy (0) or a number.
RowIndexValues == {0, 1, 2, 3}

FigureLists ==
    UNION { { [i \in 1..n |-> IF c[i] = -1 THEN [Path |-> i]
                              ELSE [Path |-> i, RowIndex |-> c[i]]] :
              c \in [1..n -> RowIndexValues \cup {-1}] } : n \in 0..MaxFigures }

\* _render_figures: one _render_figure_row per row.
RenderFiguresRows ==
    /\ figPc = "input"
    /\ figRows' = FigureRows(figIn)
    /\ figPc' = "html"
    /\ UNCHANGED <<figIn, optVars, tabVars, subVars, callVars, blkVars>>

\* _add_figures: one _add_figure_row per row.
AddFiguresRows ==
    /\ figPc = "input"
    /\ figRows' = FigureRows(figIn)
    /\ figPc' = "word"
    /\ UNCHANGED <<figIn, optVars, tabVars, subVars, callVars, blkVars>>

\* _add_figures_at_range: one Tables.Add(range, 1, len(row_figures)) per row.
AddFiguresAtRangeRows ==
    /\ figPc = "input"
    /\ figRows' = FigureRows(figIn)
    /\ figPc' = "range"
    /\ UNCHANGED <<figIn, optVars, tabVars, subVars, callVars, blkVars>>

FigNext == RenderFiguresRows \/ AddFiguresRows \/ AddFiguresAtRangeRows

\* The row a figure belongs to, as the layout policy states it: its RowIndex,
\* or 1 when RowIndex is missing or falsy.
EffectiveRow(i) ==
    IF HasKey(figIn[i], "RowIndex") /\ figIn[i]["RowIndex"] # 0
    THEN figIn[i]["RowIndex"] ELSE 1

\* C5: the layout emits exactly one row per distinct row index, in ascending
\* order of index; each row holds exactly the figures of that index in input
\* order; a figure with a missing or falsy RowIndex is in row 1.
C5_RowLayout ==
    figPc \in {"html", "word", "range"} =>
        /\ Len(figRows) = Cardinality({EffectiveRow(i) : i \in DOMAIN figIn})
        /\ \A k \in DOMAIN figRows :
              /\ figRows[k] # <<>>
              /\ \A a, b \in DOMAIN figRows[k] :
                    /\ EffectiveRow(figRows[k][a].Path) = EffectiveRow(figRows[k][b].Path)
                    /\ a < b => figRows[k][a].Path < figRows[k][b].Path
              /\ \A l \in DOMAIN figRows :
                    k < l => EffectiveRow(figRows[k][1].Path) < EffectiveRow(figRows[l][1].Path)
        /\ \A i \in DOMAIN figIn :
              \E k \in DOMAIN figRows : \E a \in DOMAIN figRows[k] : figRows[k][a] = figIn[i]

\* C5 witness: the spec's example, indices [2,1,2,1], laid out: row 1 holds
\* entries 2 and 4, row 2 holds entries 1 and 3.
C5_Witness ==
    /\ figPc = "html"
    /\ Len(figIn) = 4
    /\ \A i \in 1..4 : HasKey(figIn[i], "RowIndex")
    /\ <<figIn[1].RowIndex, figIn[2].RowIndex, figIn[3].RowIndex, figIn[4].RowIndex>>
         = <<2, 1, 2, 1>>
    /\ figRows = << <<figIn[2], figIn[4]>>, <<figIn[1], figIn[3]>> >>


(***************************************************************************)
(* PART 3.  Table layout: _add_table (202-235), _add_table_at_range        *)
(* (320-356) and _render_table (540-567).                                  *)
(***************************************************************************)
MaxTableRows == 2
MaxColumns == 2

NoGrid == [NumRows |-> -1, NumColumns |-> -1]

\* table_def.get("Rows"); None when the key is absent.
RowsOf(table_def) == IF HasKey(table_def, "Rows") THEN table_def["Rows"] ELSE <<>>

\* table_def.get("Header") or []
HeaderOf(table_def) == IF HasKey(table_def, "Header") THEN table_def["Header"] ELSE <<>>

\* The cells the two loops of lines 218-230 address, in order: the header's
\* (bold) on row 1 if there is a header, then each body row's.
CellWrites(table_def) ==
    LET header == HeaderOf(table_def)
        rows_data == RowsOf(table_def)
        first == IF header # <<>> THEN 1 ELSE 0
    IN  { [row |-> 1, col |-> c, Text |-> header[c], Bold |-> TRUE] : c \in DOMAIN header }
        \cup UNION { { [row |-> first + r, col |-> c, Text |-> rows_data[r][c], Bold |-> FALSE] :
                         c \in DOMAIN rows_data[r] } : r \in DOMAIN rows_data }

\* Lines 207-213: the arguments of Tables.Add.
GridHeaderColumns(table_def) ==
    LET rows_data == RowsOf(table_def)
        header == HeaderOf(table_def)
    IN  [NumRows |-> Len(rows_data) + (IF header # <<>> THEN 1 ELSE 0),
         NumColumns |-> IF header # <<>> THEN Len(header) ELSE Len(rows_data[1])]

GridOf(table_def) ==
    LET rows_data == RowsOf(table_def)
        header == HeaderOf(table_def)
    IN  [NumRows |-> Len(rows_data) + (IF header # <<>> THEN 1 ELSE 0),
         NumColumns |-> Len(rows_data[1])]

\* Word raises when Tables.Add is given no column or Cell(row, col) lies
\* outside the grid; the cells written before that keep their text.
WordRejects(table_def) ==
    LET g == GridOf(table_def)
    IN  \/ g.NumColumns = 0
        \/ \E w \in CellWrites(table_def) : w.col > g.NumColumns \/ w.row > g.NumRows

\* _render_table: "" (no <tr>) without rows, else one header <tr> if the
\* header is non-empty and one <tr> per body row, each cell in a <th>/<td>.
_render_table(table_def) ==
    LET rows_data == RowsOf(table_def)
        header == HeaderOf(table_def)
        head == IF header # <<>> THEN << [tag |-> "th", cells |-> header] >> ELSE <<>>
    IN  IF rows_data = <<>> THEN <<>>
        ELSE head \o [r \in DOMAIN rows_data |-> [tag |-> "td", cells |-> rows_data[r]]]

CellSeqs(n) == UNION {[1..k -> {"c"}] : k \in 0..n}

RowMatrices == UNION {[1..k -> CellSeqs(MaxColumns)] : k \in 0..MaxTableRows}

TableDefs ==
    { Opt(hp, "Header", h) @@ Opt(rp, "Rows", r) :
        hp \in BOOLEAN, rp \in BOOLEAN, h \in CellSeqs(MaxColumns + 1), r \in RowMatrices }

\* The body shared by _add_table and _add_table_at_range from "rows_data =
\* table_def.get('Rows')" on: return without a grid when there are no rows,
\* else Tables.Add and the cell writes.
WordTable(table_def, done) ==
    /\ tabPc = "input"
    /\ tabPc' = done
    /\ IF RowsOf(table_def) = <<>>
       THEN UNCHANGED <<grid, cells, tabErr>>
       ELSE /\ grid' = GridOf(table_def)
            /\ tabErr' = WordRejects(table_def)
            /\ cells' = { w \in CellWrites(table_def) :
                            /\ GridOf(table_def).NumColumns > 0
                            /\ ~\E v \in CellWrites(table_def) :
                                  /\ v.col > GridOf(table_def).NumColumns
                                  /\ \/ v.row < w.row
                                     \/ v.row = w.row /\ v.col <= w.col }
    /\ UNCHANGED <<tableDef, htmlRows, optVars, figVars, subVars, callVars, blkVars>>

_add_table == WordTable(tableDef, "word")

\* range_obj.Text = "" and the Collapse come first, then the same body.
_add_table_at_range == WordTable(tableDef, "range")

RenderTable ==
    /\ tabPc = "input"
    /\ htmlRows' = _render_table(tableDef)
    /\ tabPc' = "html"
    /\ UNCHANGED <<tableDef, grid, cells, tabErr, optVars, figVars, subVars, callVars, blkVars>>

TabNext == _add_table \/ _add_table_at_range \/ RenderTable

MaxPieces == 3
MaxReplacements == 3

\* token = f"{{{{{name}}}}}"
Token(name) == <<"{", "{", name, "}", "}">>

RECURSIVE Flatten(_)
Flatten(ss) == IF ss = <<>> THEN <<>> ELSE Head(ss) \o Flatten(Tail(ss))

\* html.escape(text): & < > " ' become entities, every other character stays.
EscapeChar(c) ==
    CASE c = "&" -> <<"&", "a", "m", "p", ";">>
      [] c = "<" -> <<"&", "l", "t", ";">>
      [] c = ">" -> <<"&", "g", "t", ";">>
      [] OTHER -> <<c>>

HtmlEscape(text) == Flatten([i \in DOMAIN text |-> EscapeChar(text[i])])

StartsWith(text, prefix) ==
    Len(text) >= Len(prefix) /\ SubSeq(text, 1, Len(prefix)) = prefix

Drop(text, n) == SubSeq(text, n + 1, Len(text))

RECURSIVE ReplaceFirst(_, _, _)
ReplaceFirst(text, old, new) ==
    IF Len(text) < Len(old) THEN text
    ELSE IF StartsWith(text, old) THEN new \o Drop(text, Len(old))
    ELSE <<Head(text)>> \o ReplaceFirst(Tail(text), old, new)

\* str.replace(old, new): every non-overlapping occurrence, left to right;
\* the text put in is not scanned again.
RECURSIVE StrReplace(_, _, _)
StrReplace(text, old, new) ==
    IF Len(text) < Len(old) THEN text
    ELSE IF StartsWith(text, old) THEN new \o StrReplace(Drop(text, Len(old)), old, new)
    ELSE <<Head(text)>> \o StrReplace(Tail(text), old, new)

\* A mapping entry: the placeholder's name and its payload: a str (type
\* "str", text), a dict with Rows (type "table": one row of one cell, text),
\* a dict with Path and Caption (type "figure": an existing image file and
\* its caption, text) or an object that is neither str nor dict ("other").
Entry(name, type, text) == [name |-> name, type |-> type, text |-> text]

Names(m) == {m[k].name : k \in DOMAIN m}

PayloadOf(m, name) == m[CHOOSE k \in DOMAIN m : m[k].name = name]

\* _render_table for a table of one cell; "<table>" and "</table>" stand for
\* the tags around the escaped cell text, which hold no brace.
HtmlTableMarkup(cell) == <<"<table>">> \o HtmlEscape(cell) \o <<"</table>">>

\* _render_figures([payload]) with _render_figure_row (583-598): the <img>
\* tag, whose alt attribute is the escaped caption, then the caption's <div>
\* if the caption is not empty.
HtmlFigureMarkup(caption) ==
    IF caption = <<>> THEN <<"<img>">>
    ELSE <<"<img alt=">> \o HtmlEscape(caption) \o <<"><div>">> \o HtmlEscape(caption)
         \o <<"</div>">>

\* _render_placeholder: html.escape(payload) for a str, the table or figure
\* markup for a dict that holds one, "" for any other object.
_render_placeholder(payload) ==
    CASE payload.type = "str" -> HtmlEscape(payload.text)
      [] payload.type = "table" -> HtmlTableMarkup(payload.text)
      [] payload.type = "figure" -> HtmlFigureMarkup(payload.text)
      [] OTHER -> <<>>

\* _escape_or_placeholder: a value that is exactly one token of the mapping
\* is rendered at once, any other text is escaped.
_escape_or_placeholder(text, m) ==
    IF /\ StartsWith(text, <<"{", "{">>)
       /\ Len(text) = 5
       /\ SubSeq(text, 4, 5) = <<"}", "}">>
       /\ text[3] \in Names(m)
    THEN _render_placeholder(PayloadOf(m, text[3]))
    ELSE HtmlEscape(text)

\* _replace_placeholders_html from placeholder k on.
RECURSIVE ReplaceFrom(_, _, _)
ReplaceFrom(text, m, k) ==
    IF k > Len(m) THEN text
    ELSE ReplaceFrom(StrReplace(text, Token(m[k].name), _render_placeholder(m[k])), m, k + 1)

_replace_placeholders_html(text, m) == ReplaceFrom(text, m, 1)

\* Word compares without case (MatchCase is False, line 299).
Fold(c) == IF c = "x" THEN "X" ELSE c

FoldText(text) == [i \in DOMAIN text |-> Fold(text[i])]

\* The positions where the token matches the text.
Matches(text, token) ==
    {q \in 1..(Len(text) - Len(token) + 1) :
        FoldText(SubSeq(text, q, q + Len(token) - 1)) = FoldText(token)}

\* The Wrap argument of Find.Execute, line 299: 1 is wdFindContinue, 0 is
\* wdFindStop.
wdFindStop == 0
wdFindContinue == 1
Wrap == 1

\* Find.Execute on the range from start to the end of the document: the
\* first position at or after start where the token matches.  When there
\* is none and Wrap is wdFindContinue the search goes on through the rest
\* of the document, from its beginning up to start.  0: not found.
FindFrom(text, token, start) ==
    LET inRange == {q \in Matches(text, token) : q >= start}
        before == {q \in Matches(text, token) : q + Len(token) <= start}
        hits == IF inRange # {} THEN inRange
                ELSE IF Wrap = wdFindContinue THEN before ELSE {}
    IN  IF hits = {} THEN 0 ELSE CHOOSE q \in hits : \A r \in hits : q <= r

\* The text of a Word table of one cell: "[" and "]" stand for the table's
\* structure around the cell text.
WordTableText(cell) == <<"[">> \o cell \o <<"]">>

\* The text a Word placeholder's range is replaced by (lines 300-310): the
\* str itself, the table for a dict with Rows, "" for any other object.
WordText(payload) ==
    CASE payload.type = "str" -> payload.text
      [] payload.type = "table" -> WordTableText(payload.text)
      [] OTHER -> <<>>

\* The author's text: literal runs and tokens, in any arrangement.
TokX == Token("X")
Tokx == Token("x")

Pieces == {TokX, Tokx, <<"a">>, <<"{", "{">>, <<"X", "}", "}">>}

PieceLists == UNION {[1..k -> Pieces] : k \in 0..MaxPieces}

PayloadTexts == {<<>>, <<"<">>, TokX}

EntriesFor(name) ==
    {Entry(name, "str", t) : t \in PayloadTexts}
    \cup {Entry(name, "table", TokX), Entry(name, "figure", <<"<">>),
          Entry(name, "other", <<>>)}

Mappings ==
    {<<>>} \cup {<<e>> : e \in EntriesFor("X") \cup EntriesFor("x")}
    \cup {<<e, f>> : e \in EntriesFor("X"), f \in EntriesFor("x")}
    \cup {<<f, e>> : e \in EntriesFor("X"), f \in EntriesFor("x")}

subOthers == <<optVars, figVars, tabVars, callVars, blkVars>>

\* The HTML of one paragraph (_render_section 514-518) whose text is the
\* author's; "<p>" and "</p>" stand for the tags, which hold no brace.
RenderParagraph ==
    /\ subPc = "input"
    /\ content' = <<"<p>">> \o _escape_or_placeholder(Flatten(pieces), mapping) \o <<"</p>">>
    /\ subPc' = "markup"
    /\ UNCHANGED <<pieces, mapping, subIdx, searchStart, replaced, occAtStart, subOthers>>

\* final_html = _replace_placeholders_html(...), line 461.
ReplaceHtml ==
    /\ subPc = "markup"
    /\ content' = _replace_placeholders_html(content, mapping)
    /\ subPc' = "html"
    /\ UNCHANGED <<pieces, mapping, subIdx, searchStart, replaced, occAtStart, subOthers>>

\* The matches the token of placeholder k has in the text (none past the
\* end of the mapping).
MatchCount(text, m, k) ==
    IF k \in DOMAIN m THEN Cardinality(Matches(text, Token(m[k].name))) ELSE 0

\* selection.TypeText(str(paragraph)), line 182: the text goes into the
\* Word document as it is; _replace_placeholders then starts at doc.Content.
TypeParagraph ==
    /\ subPc = "input"
    /\ content' = Flatten(pieces)
    /\ subPc' = "word"
    /\ subIdx' = 1
    /\ searchStart' = 1
    /\ replaced' = 0
    /\ occAtStart' = MatchCount(Flatten(pieces), mapping, 1)
    /\ UNCHANGED <<pieces, mapping, subOthers>>

\* One Find.Execute of the cursor loop (299) and what follows it.  Without
\* a match the loop goes to the next placeholder, which searches
\* doc.Content from its start (294).  On a match the payload's branch runs
\* (300-310) and the next search starts at the End of search_range
\* (312-314): for a text that is the end of the text put in; a table is
\* inserted at the collapsed range, which Word leaves before the table or
\* moves behind it; a figure dict goes to _add_figures_at_range, where
\* _normalize_figures iterates the dict's keys and dict(key) raises
\* ValueError.
FindStep ==
    /\ subPc = "word"
    /\ subIdx <= Len(mapping)
    /\ LET token == Token(mapping[subIdx].name)
           at == FindFrom(content, token, searchStart)
           new == WordText(mapping[subIdx])
       IN  IF at = 0
           THEN /\ subIdx' = subIdx + 1
                /\ searchStart' = 1
                /\ replaced' = 0
                /\ occAtStart' = MatchCount(content, mapping, subIdx + 1)
                /\ UNCHANGED <<content, subPc>>
           ELSE IF mapping[subIdx].type = "figure"
           THEN /\ subPc' = "wordraised"
                /\ UNCHANGED <<content, subIdx, searchStart, replaced, occAtStart>>
           ELSE /\ replaced < MaxReplacements
                /\ content' = SubSeq(content, 1, at - 1) \o new
                                \o Drop(content, at + Len(token) - 1)
                /\ replaced' = replaced + 1
                /\ \E End \in {at, at + Len(new)} :
                      /\ mapping[subIdx].type # "table" => End = at + Len(new)
                      /\ searchStart' = End
                /\ UNCHANGED <<subIdx, occAtStart, subPc>>
    /\ UNCHANGED <<pieces, mapping, subOthers>>

\* "for name, payload in placeholders.items()" is exhausted (or line 289
\* returned at once): _replace_placeholders returns.
ReplaceWordDone ==
    /\ subPc = "word"
    /\ subIdx > Len(mapping)
    /\ subPc' = "worddone"
    /\ UNCHANGED <<pieces, mapping, content, subIdx, searchStart, replaced, occAtStart,
                   subOthers>>

SubNext == RenderParagraph \/ ReplaceHtml \/ TypeParagraph \/ FindStep \/ ReplaceWordDone

\* Whether text holds the token, compared exactly.
Occurs(token, text) ==
    \E q \in 1..(Len(text) - Len(token) + 1) : SubSeq(text, q, q + Len(token) - 1) = token

BraceFree(text) == \A i \in DOMAIN text : text[i] \notin {"{", "}"}

IsToken(piece) == Len(piece) = 5 /\ piece = Token(piece[3]) /\ BraceFree(<<piece[3]>>)

\* Braces occur in the author's text only as the delimiters of whole tokens.
BracesOnlyInTokens == \A i \in DOMAIN pieces : IsToken(pieces[i]) \/ BraceFree(pieces[i])

PayloadsBraceFree == \A k \in DOMAIN mapping : BraceFree(mapping[k].text)

NoCaseClash ==
    \A j, k \in DOMAIN mapping : j # k => Fold(mapping[j].name) # Fold(mapping[k].name)

\* The text with every token of the mapping replaced by its payload and
\* everything else kept; esc tells whether the backend escapes.  Word
\* matches without case (fold), so there a token whose exact name is not in
\* the mapping is replaced too, by the payload of the name that differs
\* only by case.
Substituted(esc, fold) ==
    LET Exact(n) == {k \in DOMAIN mapping : mapping[k].name = n}
        Folded(n) == {k \in DOMAIN mapping : fold /\ Fold(mapping[k].name) = Fold(n)}
        Out(piece) ==
            IF IsToken(piece) /\ Exact(piece[3]) \cup Folded(piece[3]) # {}
            THEN LET k == IF Exact(piece[3]) # {} THEN CHOOSE j \in Exact(piece[3]) : TRUE
                          ELSE CHOOSE j \in Folded(piece[3]) : TRUE
                 IN  CASE mapping[k].type = "str" ->
                            IF esc THEN HtmlEscape(mapping[k].text) ELSE mapping[k].text
                       [] mapping[k].type = "table" ->
                            IF esc THEN HtmlTableMarkup(mapping[k].text)
                            ELSE WordTableText(mapping[k].text)
                       [] mapping[k].type = "figure" /\ esc -> HtmlFigureMarkup(mapping[k].text)
                       [] OTHER -> <<>>
            ELSE IF esc THEN HtmlEscape(piece) ELSE piece
    IN  Flatten([i \in DOMAIN pieces |-> Out(pieces[i])])

NoStringTokenLeft ==
    \A k \in DOMAIN mapping :
        mapping[k].type = "str" => ~Occurs(Token(mapping[k].name), content)

C12_NoRescan ==
    (BracesOnlyInTokens /\ subPc \in {"word", "worddone", "wordraised"})
        => replaced <= occAtStart

(***************************************************************************)
(* PART 5.  The render calls: generate_html_report (427-464) and           *)
(* generate_word_report (43-80), with the figure routines' temp files      *)
(* (_normalize_figures 389-395, _ensure_figure_path 398-412,               *)
(* _delete_temp_files 419-424) and the Word handle.  Word, matplotlib and  *)
(* the filesystem are the environment: each of their calls may raise.      *)
(***************************************************************************)
MaxSections == 2
MaxCallFigures == 2
MaxPlaceholders == 1

\* A figure entry: Path is "file" (an existing file), "missing" (a string
\* naming no file) or "plot" (an object with savefig); FigureHandle is
\* "plot" or "junk" (an object without savefig).
FigureEntries == {[Path |-> "file"], [FigureHandle |-> "plot"], [Path |-> "missing"]}

\* hasattr(obj, "savefig")
_looks_like_matplotlib(obj) == obj = "plot"

\* _ensure_figure_path with invalid entries passed through unresolved.
EnsureSkipsInvalid(fig) ==
    IF HasKey(fig, "Path") /\ fig["Path"] = "file" THEN "path"
    ELSE LET candidate == IF HasKey(fig, "FigureHandle") THEN fig["FigureHandle"]
                          ELSE IF HasKey(fig, "Path") THEN fig["Path"] ELSE "None"
         IN  IF candidate # "None" /\ _looks_like_matplotlib(candidate) THEN "temp" ELSE "path"

\* _ensure_figure_path: "path" (lines 399-401, an existing file), "temp"
\* (lines 404-410, savefig into a mktemp path) or "raise" (line 412).
_ensure_figure_path(fig) ==
    IF HasKey(fig, "Path") /\ fig["Path"] = "file" THEN "path"
    ELSE LET candidate == IF HasKey(fig, "FigureHandle") THEN fig["FigureHandle"]
                          ELSE IF HasKey(fig, "Path") THEN fig["Path"] ELSE "None"
         IN  IF candidate # "None" /\ _looks_like_matplotlib(candidate) THEN "temp" ELSE "raise"

\* A placeholder payload: a str, a dict, or another object (a number, a list).
Payload(type, d) == [type |-> type, d |-> d]

PayloadShapes ==
    { Payload("str", EmptyDict), Payload("other", EmptyDict), Payload("dict", EmptyDict),
      Payload("dict", [Rows |-> "rows"]),
      Payload("dict", [Path |-> "file"]),
      Payload("dict", [FigureHandle |-> "plot", Caption |-> "c"]),
      Payload("dict", [Caption |-> "c", Note |-> "n"]),
      Payload("dict", [Path |-> "missing"]) }

\* The branch _render_placeholder (622-630) and the loop body of
\* _replace_placeholders (300-310) take for a payload.
PayloadBranch(payload) ==
    IF payload.type = "str" THEN "text"
    ELSE IF payload.type = "dict"
         THEN IF HasKey(payload.d, "Rows") /\ payload.d["Rows"] # "empty" THEN "table"
              ELSE IF HasKey(payload.d, "Path") \/ Cardinality(DOMAIN payload.d) > 1
                   THEN "figures"
                   ELSE "empty"
         ELSE "empty"

FigureListsUpTo(n) == UNION {[1..k -> FigureEntries] : k \in 0..n}

TotalFigures(secs) ==
    LET RECURSIVE Sum(_)
        Sum(i) == IF i = 0 THEN 0
                  ELSE Sum(i - 1) + (IF HasKey(secs[i], "Figures") THEN Len(secs[i]["Figures"]) ELSE 0)
    IN  Sum(Len(secs))

\* A section with no Figures key, or with a list of figure entries.
SectionChoices ==
    {EmptyDict} \cup {[Figures |-> f] : f \in FigureListsUpTo(MaxCallFigures) \ {<<>>}}

SectionInputs ==
    { secs \in UNION {[1..k -> SectionChoices] : k \in 0..MaxSections} :
        TotalFigures(secs) <= MaxCallFigures }

PlaceholderInputs == UNION {[1..k -> PayloadShapes] : k \in 0..MaxPlaceholders}

\* tempfile.mktemp: a name no earlier temp file of the call has.
NewTemp == Cardinality(created) + 1

InTry == pc \in {"create", "setup", "cover", "body", "footer", "placeholders", "saveas",
                 "normalize", "rows", "cleanup"}

\* An exception leaves the statement at pc: out of generate_html_report, or,
\* inside the try of generate_word_report, into its finally (line 77).
Propagate(e, at) ==
    /\ exc' = e
    /\ excAt' = at
    /\ IF backend = "word" /\ InTry
       THEN pc' = "close" /\ result' = result
       ELSE pc' = "done" /\ result' = "raised"

figMachine == <<figs, figIdx, temp_files, delIdx, figCtx>>
wordVars == <<wordState, docState, events>>
otherParts == <<optVars, figVars, tabVars, subVars, blkVars>>

\* The statements of the try block of generate_word_report, in order
\* (lines 66-76), SaveAs moved before the placeholder substitution.
TryOrderSaveEarly ==
    <<"create", "setup", "cover", "body", "footer", "saveas", "placeholders", "close">>

\* The statements of the try block of generate_word_report, in order
\* (lines 66-76), then the finally block.
TryOrder ==
    <<"create", "setup", "cover", "body", "footer", "placeholders", "saveas", "close">>

After(stage) == TryOrder[1 + CHOOSE i \in DOMAIN TryOrder : TryOrder[i] = stage]

\* generate_html_report up to the section loop: _merge_options, the head,
\* _build_root_style and _render_cover_page, none of which can fail here.
generate_html_report ==
    /\ pc = "idle"
    /\ backend' = "html"
    /\ pc' = "body"
    /\ secIdx' = 1
    /\ result' = "running"
    /\ UNCHANGED <<sections, placeholders, phIdx, figMachine, exc, excAt, fs, created,
                   wordVars, outFile, refs, otherParts>>

\* generate_word_report, lines 59-62: _get_dispatch raises without pywin32,
\* Dispatch may fail; otherwise the Word handle exists.
generate_word_report ==
    /\ pc = "idle"
    /\ backend' = "word"
    /\ \E ok \in BOOLEAN :
          IF ok THEN /\ wordState' = "running"
                     /\ pc' = "visible"
                     /\ result' = "running"
                     /\ UNCHANGED <<exc, excAt>>
          ELSE /\ pc' = "done"
               /\ result' = "raised"
               /\ exc' = "RuntimeError"
               /\ excAt' = "dispatch"
               /\ UNCHANGED wordState
    /\ UNCHANGED <<sections, placeholders, secIdx, phIdx, figMachine, fs, created,
                   docState, events, outFile, refs, otherParts>>

\* Line 63, word.Visible = False, before the try statement.
SetVisible ==
    /\ pc = "visible"
    /\ \E ok \in BOOLEAN :
          IF ok THEN pc' = "create" /\ UNCHANGED <<exc, excAt, result>>
          ELSE pc' = "done" /\ result' = "raised" /\ exc' = "COMError" /\ excAt' = "visible"
    /\ UNCHANGED <<sections, placeholders, backend, secIdx, phIdx, figMachine, fs, created,
                   wordVars, outFile, refs, otherParts>>

\* One statement of the try block that only talks to Word: _create_document
\* (66), _set_document_properties and _configure_page_setup (67-69),
\* _add_cover_page (71), _add_footer_and_numbers (73), doc.SaveAs (76).
WordStep ==
    /\ backend = "word"
    /\ pc \in {"create", "setup", "cover", "footer", "saveas"}
    /\ \E ok \in BOOLEAN :
          /\ events' = IF ok \/ pc = "saveas" THEN Append(events, pc) ELSE events
          /\ IF ok THEN /\ pc' = After(pc)
                        /\ docState' = IF pc = "create" THEN "open" ELSE docState
                        /\ UNCHANGED <<exc, excAt, result>>
             ELSE Propagate("COMError", pc) /\ UNCHANGED docState
    /\ secIdx' = IF pc = "cover" THEN 1 ELSE secIdx
    /\ phIdx' = IF pc = "footer" THEN 1 ELSE phIdx
    /\ UNCHANGED <<sections, placeholders, backend, figMachine, fs, created, wordState,
                   outFile, refs, otherParts>>

\* The figure routine is entered: _render_figures / _add_figures /
\* _add_figures_at_range start with _normalize_figures.
EnterFigures(list, ctx) ==
    /\ figs' = list
    /\ figIdx' = 1
    /\ temp_files' = <<>>
    /\ delIdx' = 1
    /\ figCtx' = ctx
    /\ pc' = "normalize"

\* One iteration of the section loop (_render_section 503-537; the loop
\* body of _add_body_content 166-199): the text blocks, then the figures if
\* the section has any.  Only Word's calls can fail on the text blocks.
SectionStep ==
    /\ pc = "body"
    /\ secIdx <= Len(sections)
    /\ \E ok \in BOOLEAN :
          IF ~ok /\ backend = "word"
          THEN Propagate("COMError", "section") /\ UNCHANGED <<secIdx, figMachine>>
          ELSE /\ UNCHANGED <<exc, excAt, result>>
               /\ IF HasKey(sections[secIdx], "Figures") /\ sections[secIdx]["Figures"] # <<>>
                  THEN EnterFigures(sections[secIdx]["Figures"], "section") /\ UNCHANGED secIdx
                  ELSE secIdx' = secIdx + 1 /\ pc' = pc /\ UNCHANGED figMachine
    /\ UNCHANGED <<sections, placeholders, backend, phIdx, fs, created, wordVars, outFile, refs,
                   otherParts>>

\* The section loop ends: the HTML goes on to _replace_placeholders_html
\* (461), Word to _add_footer_and_numbers (73).
SectionsDone ==
    /\ pc = "body"
    /\ secIdx > Len(sections)
    /\ IF backend = "word"
       THEN pc' = After("body") /\ events' = Append(events, "body") /\ UNCHANGED phIdx
       ELSE pc' = "placeholders" /\ phIdx' = 1 /\ UNCHANGED events
    /\ UNCHANGED <<sections, placeholders, backend, secIdx, figMachine, exc, excAt, fs,
                   created, wordState, docState, outFile, refs, result, otherParts>>

\* One iteration of the loop of _normalize_figures: _ensure_figure_path on
\* the next figure.  The loop is outside the routine's try statement, so an
\* exception here leaves the routine without running _delete_temp_files.
\* A failing savefig may have created its file already.
NormalizeStep ==
    /\ pc = "normalize"
    /\ figIdx <= Len(figs)
    /\ LET how == _ensure_figure_path(figs[figIdx])
       IN  \/ /\ how = "path"
              /\ figIdx' = figIdx + 1
              /\ UNCHANGED <<pc, temp_files, fs, created, exc, excAt, result>>
           \/ /\ how = "temp"
              /\ figIdx' = figIdx + 1
              /\ temp_files' = Append(temp_files, NewTemp)
              /\ fs' = fs \cup {NewTemp}
              /\ created' = created \cup {NewTemp}
              /\ UNCHANGED <<pc, exc, excAt, result>>
           \/ /\ how = "temp"
              /\ \E partial \in BOOLEAN :
                    /\ fs' = IF partial THEN fs \cup {NewTemp} ELSE fs
                    /\ created' = IF partial THEN created \cup {NewTemp} ELSE created
              /\ Propagate("SavefigError", figCtx)
              /\ UNCHANGED <<figIdx, temp_files>>
           \/ /\ how = "raise"
              /\ Propagate("ValueError", figCtx)
              /\ UNCHANGED <<figIdx, temp_files, fs, created>>
    /\ UNCHANGED <<sections, placeholders, backend, secIdx, phIdx, figs, delIdx, figCtx,
                   wordVars, outFile, refs, otherParts>>

\* _normalize_figures has returned; the try body lays the rows out.  Word's
\* AddPicture may fail; in HTML only reading a file to embed can.  Either
\* way the finally block runs next.  In HTML _figure_src (601-611) puts a
\* figure's path into the markup unless the figure is embedded (its Embed
\* flag, or else options' EmbedImages); the flags are read here, so the
\* figures embedded are any of them.  (A placeholder's markup reaches the
\* output only where its token occurs; a figure of a token that does not
\* occur is referred to no more than an embedded one.)
RowsStep ==
    /\ pc = "normalize"
    /\ figIdx > Len(figs)
    /\ \E ok \in BOOLEAN :
          IF ok
          THEN /\ UNCHANGED <<exc, excAt>>
               /\ IF backend = "html"
                  THEN \E embedded \in SUBSET Range(temp_files) :
                          refs' = refs \cup (Range(temp_files) \ embedded)
                  ELSE UNCHANGED refs
          ELSE /\ exc' = (IF backend = "word" THEN "COMError" ELSE "OSError")
               /\ excAt' = "rows"
               /\ UNCHANGED refs
    /\ pc' = "cleanup"
    /\ delIdx' = 1
    /\ UNCHANGED <<sections, placeholders, backend, secIdx, phIdx, figs, figIdx, temp_files,
                   figCtx, fs, created, wordVars, outFile, result, otherParts>>

\* One iteration of _delete_temp_files: os.remove removes the file, finds
\* none (FileNotFoundError, passed over) or fails otherwise, and that
\* exception leaves the loop and the routine.
DeleteStep ==
    /\ pc = "cleanup"
    /\ delIdx <= Len(temp_files)
    /\ \/ /\ fs' = fs \ {temp_files[delIdx]}
          /\ delIdx' = delIdx + 1
          /\ UNCHANGED <<pc, exc, excAt, result>>
       \/ /\ temp_files[delIdx] \in fs
          /\ Propagate("PermissionError", "cleanup")
          /\ UNCHANGED <<fs, delIdx>>
    /\ UNCHANGED <<sections, placeholders, backend, secIdx, phIdx, figs, figIdx, temp_files,
                   figCtx, created, wordVars, outFile, refs, otherParts>>

\* The finally block is done: the exception of the try body, if any, goes
\* on; otherwise the routine returns to the loop that called it.
FiguresReturn ==
    /\ pc = "cleanup"
    /\ delIdx > Len(temp_files)
    /\ IF exc # "none"
       THEN Propagate(exc, excAt) /\ UNCHANGED <<secIdx, phIdx>>
       ELSE /\ UNCHANGED <<exc, excAt, result>>
            /\ IF figCtx = "section"
               THEN pc' = "body" /\ secIdx' = secIdx + 1 /\ UNCHANGED phIdx
               ELSE pc' = "placeholders" /\ phIdx' = phIdx + 1 /\ UNCHANGED secIdx
    /\ UNCHANGED <<sections, placeholders, backend, figMachine, fs, created, wordVars,
                   outFile, refs, otherParts>>

\* Another process removes a temporary file while the call runs.
ExternalRemove ==
    /\ pc \in {"normalize", "cleanup"}
    /\ \E f \in fs : fs' = fs \ {f}
    /\ UNCHANGED <<sections, placeholders, backend, pc, secIdx, phIdx, figMachine, exc,
                   excAt, created, wordVars, outFile, refs, result, otherParts>>

\* One iteration of the loop of _replace_placeholders_html (635-638):
\* _render_placeholder is called whether or not the token occurs.
PlaceholderStepHtml ==
    /\ backend = "html"
    /\ pc = "placeholders"
    /\ phIdx <= Len(placeholders)
    /\ IF PayloadBranch(placeholders[phIdx]) = "figures"
       THEN EnterFigures(<<placeholders[phIdx].d>>, "placeholder") /\ UNCHANGED phIdx
       ELSE phIdx' = phIdx + 1 /\ UNCHANGED <<pc, figMachine>>
    /\ UNCHANGED <<sections, placeholders, backend, secIdx, exc, excAt, fs, created,
                   wordVars, outFile, refs, result, otherParts>>

\* One iteration of the outer loop of _replace_placeholders (292-317): the
\* token is searched for; if it is found the payload's branch runs.
\* _add_figures_at_range is handed the payload dict itself, whose iteration
\* yields its keys, and dict(key) raises ValueError in _normalize_figures.
PlaceholderStepWord ==
    /\ backend = "word"
    /\ pc = "placeholders"
    /\ phIdx <= Len(placeholders)
    /\ \E found \in BOOLEAN, ok \in BOOLEAN :
          IF ~found THEN phIdx' = phIdx + 1 /\ UNCHANGED <<pc, exc, excAt, result>>
          ELSE IF PayloadBranch(placeholders[phIdx]) = "figures"
               THEN Propagate("ValueError", "placeholder") /\ UNCHANGED phIdx
               ELSE IF ok THEN phIdx' = phIdx + 1 /\ UNCHANGED <<pc, exc, excAt, result>>
                    ELSE Propagate("COMError", "placeholder") /\ UNCHANGED phIdx
    /\ UNCHANGED <<sections, placeholders, backend, secIdx, figMachine, fs, created,
                   wordVars, outFile, refs, otherParts>>

\* The substitution loop ends: Word goes on to doc.SaveAs (76), the HTML to
\* open(output_path, "w") and fp.write (463-464), which may fail before the
\* file exists or after.
PlaceholdersDone ==
    /\ pc = "placeholders"
    /\ phIdx > Len(placeholders)
    /\ IF backend = "word"
       THEN /\ pc' = After("placeholders")
            /\ events' = Append(events, "placeholders")
            /\ UNCHANGED <<outFile, refs, result, exc, excAt>>
       ELSE /\ pc' = "done"
            /\ UNCHANGED events
            /\ UNCHANGED refs
            /\ \E how \in {"written", "partial", "none"} :
                  /\ outFile' = how
                  /\ result' = IF how = "written" THEN "returned" ELSE "raised"
                  /\ exc' = IF how = "written" THEN exc ELSE "OSError"
                  /\ excAt' = IF how = "written" THEN excAt ELSE "write"
    /\ UNCHANGED <<sections, placeholders, backend, secIdx, phIdx, figMachine, fs, created,
                   wordState, docState, otherParts>>

\* Lines 78-79: doc.Close() if a document was created.  If Close raises,
\* the finally block is left at once.
Close ==
    /\ pc = "close"
    /\ IF docState = "none"
       THEN pc' = "quit" /\ UNCHANGED <<docState, events, exc, excAt, result>>
       ELSE /\ events' = Append(events, "close")
            /\ \E ok \in BOOLEAN :
                  IF ok THEN pc' = "quit" /\ docState' = "closed" /\ UNCHANGED <<exc, excAt, result>>
                  ELSE /\ pc' = "done"
                       /\ result' = "raised"
                       /\ exc' = "COMError"
                       /\ excAt' = "close"
                       /\ UNCHANGED docState
    /\ UNCHANGED <<sections, placeholders, backend, secIdx, phIdx, figMachine, fs, created,
                   wordState, outFile, refs, otherParts>>

\* Line 80: word.Quit(), then the call returns or the exception goes on.
Quit ==
    /\ pc = "quit"
    /\ wordState' = "quit"
    /\ events' = Append(events, "quit")
    /\ pc' = "done"
    /\ \E ok \in BOOLEAN :
          IF ok THEN /\ result' = IF exc = "none" THEN "returned" ELSE "raised"
                     /\ UNCHANGED <<exc, excAt>>
          ELSE result' = "raised" /\ exc' = "COMError" /\ excAt' = "quit"
    /\ UNCHANGED <<sections, placeholders, backend, secIdx, phIdx, figMachine, fs, created,
                   docState, outFile, refs, otherParts>>

Next ==
    \/ generate_html_report
    \/ generate_word_report
    \/ SetVisible
    \/ WordStep
    \/ SectionStep
    \/ SectionsDone
    \/ NormalizeStep
    \/ RowsStep
    \/ DeleteStep
    \/ FiguresReturn
    \/ ExternalRemove
    \/ PlaceholderStepHtml
    \/ PlaceholderStepWord
    \/ PlaceholdersDone
    \/ Close
    \/ Quit


\* The positions of doc.SaveAs among the Word events.
Saves == {i \in DOMAIN events : events[i] = "saveas"}

\* A figure entry with neither a Path that is an existing file nor a source
\* object that can savefig.
InvalidFigure(fig) ==
    /\ ~(HasKey(fig, "Path") /\ fig["Path"] = "file")
    /\ ~(HasKey(fig, "FigureHandle") /\ fig["FigureHandle"] = "plot")
    /\ ~(HasKey(fig, "Path") /\ fig["Path"] = "plot")

SomeSectionFigureInvalid ==
    \E i \in DOMAIN sections :
        /\ HasKey(sections[i], "Figures")
        /\ \E j \in DOMAIN sections[i]["Figures"] : InvalidFigure(sections[i]["Figures"][j])

\* A payload that is not a plain string, not a table and not a figure set:
\* another object, or a dict that names no rows and no image source.
MalformedPayload(payload) ==
    \/ payload.type = "other"
    \/ /\ payload.type = "dict"
       /\ DOMAIN payload.d \cap {"Rows", "Path", "FigureHandle"} = {}

\* C1: when a render call has returned or raised, no temporary image file
\* the call created exists any more.
C1_NoTempLeak == pc = "done" => created \cap fs = {}

\* C2: once Dispatch has returned the Word handle, word.Quit() has been
\* called by the time generate_word_report returns or raises.
C2_QuitOnEveryExit ==
    (pc = "done" /\ backend = "word" /\ wordState # "none") => wordState = "quit"

\* C3: doc.SaveAs is called at most once, only after the cover, the body,
\* the footer and the placeholder substitution have completed, and before
\* doc.Close and word.Quit; a successful run calls it exactly once; a run
\* that failed at an earlier statement never calls it.
C3_SaveOnceAtEnd ==
    /\ Cardinality(Saves) <= 1
    /\ \A i \in Saves :
          /\ SubSeq(events, 1, i)
               = <<"create", "setup", "cover", "body", "footer", "placeholders", "saveas">>
          /\ \A j \in DOMAIN events : events[j] \in {"close", "quit"} => i < j
    /\ (backend = "word" /\ result = "returned") =>
          events = <<"create", "setup", "cover", "body", "footer", "placeholders",
                     "saveas", "close", "quit">>
    /\ (exc # "none" /\ excAt \notin {"saveas", "close", "quit"}) => Saves = {}

\* C3 witness: a Word run with a section and a placeholder has returned.
C3_Witness ==
    /\ backend = "word" /\ result = "returned"
    /\ Len(sections) > 0 /\ Len(placeholders) > 0
    /\ Cardinality(Saves) = 1

\* C4: if a figure entry of a section has no usable image source, the call
\* raises: the HTML output file is neither created nor written and
\* doc.SaveAs is not called.
C4_InvalidFigureAborts ==
    (pc = "done" /\ SomeSectionFigureInvalid) =>
        /\ result = "raised"
        /\ outFile = "none"
        /\ Saves = {}

\* C4 witness: an HTML call whose second section holds an invalid figure
\* has raised the ValueError of _ensure_figure_path.
C4_Witness ==
    /\ pc = "done" /\ backend = "html"
    /\ Len(sections) = 2
    /\ HasKey(sections[2], "Figures") /\ InvalidFigure(sections[2]["Figures"][1])
    /\ result = "raised" /\ exc = "ValueError" /\ excAt = "section" /\ secIdx = 2

\* C7: a malformed placeholder payload never makes the render fail: no call
\* ends with the exception raised while that payload was being resolved.
C7_MalformedPayloadElided ==
    ~(/\ pc = "done" /\ result = "raised"
      /\ exc = "ValueError" /\ excAt = "placeholder"
      /\ phIdx \in DOMAIN placeholders
      /\ MalformedPayload(placeholders[phIdx]))

\* C13: a deletion failure in _delete_temp_files other than a missing file
\* is not propagated: no call ends with the exception os.remove raised
\* during the cleanup.
C13_CleanupFailureTolerated ==
    ~(/\ pc = "done" /\ result = "raised"
      /\ exc = "PermissionError" /\ excAt = "cleanup")

\* C14: when generate_html_report has written its output, every temporary
\* file the markup refers to by path (a figure that is not embedded) still
\* exists: the call has deleted none of them before the write.
C14_TempAliveAtWrite == outFile = "written" => refs \subseteq fs

(***************************************************************************)
(* PART 6.  The block sequence of a report: the head, _render_cover_page   *)
(* (479-500), _render_section (503-537) and the section loop of            *)
(* generate_html_report (444-461); _add_cover_page (142-162) and           *)
(* _add_body_content (165-199).  A block is one chunk appended to the      *)
(* markup, or one element typed or inserted at the Word selection; its     *)
(* kind names the statement that emits it, sec the section it is emitted   *)
(* for (0 outside the section loop) and item the value it carries.         *)
(***************************************************************************)
MaxBlockSections == 2
MaxBlockItems == 2

report_title == "T"

Block(kind, sec, item) == [kind |-> kind, sec |-> sec, item |-> item]

\* section.get(key, []) or []
ListOf(section, key) == IF HasKey(section, key) THEN section[key] ELSE <<>>

\* "title = section.get('Title')" followed by "if title:": an empty string
\* is falsy.
HasTitle(section) == HasKey(section, "Title") /\ section["Title"] # ""

\* The cover lines for Author and Company, each only if the option is set.
CoverLines(options) ==
    (IF HasKey(options, "Author")
     THEN <<Block("cover_line", 0, options["Author"])>> ELSE <<>>)
    \o (IF HasKey(options, "Company")
        THEN <<Block("cover_line", 0, options["Company"])>> ELSE <<>>)

\* _render_cover_page: the <h1> with the report title, then the lines.
_render_cover_page(options) == <<Block("cover", 0, report_title)>> \o CoverLines(options)

\* _add_cover_page: the title paragraph, the lines, then the page break.
_add_cover_page(options) ==
    <<Block("cover", 0, report_title)>> \o CoverLines(options)
    \o <<Block("pagebreak", 0, "")>>

\* Lines 508-512.
HtmlHeading(section, s) ==
    IF HasTitle(section) THEN <<Block("h2", s, section["Title"])>> ELSE <<>>

\* Lines 514-518.
HtmlParagraphs(section, s) ==
    LET paragraphs == ListOf(section, "Paragraphs")
    IN  [i \in DOMAIN paragraphs |-> Block("p", s, paragraphs[i])]

\* Lines 520-527: the <ul> and </ul> only if there is a bullet.
HtmlBullets(section, s) ==
    LET bullets == ListOf(section, "Bullets")
    IN  IF bullets = <<>> THEN <<>>
        ELSE <<Block("ul", s, "")>> \o [i \in DOMAIN bullets |-> Block("li", s, bullets[i])]
             \o <<Block("/ul", s, "")>>

\* Lines 529-530: _render_table returns "" for a table without rows, and
\* the empty chunk adds nothing to the markup.
HtmlTables(section, s) ==
    LET tables == ListOf(section, "Tables")
        shown == SelectSeq(tables, LAMBDA t : _render_table(t) # <<>>)
    IN  [i \in DOMAIN shown |-> Block("table", s, shown[i])]

\* Lines 532-534 with _render_figures: one borderless table per figure row.
HtmlFigures(section, s) ==
    LET rows == FigureRows(ListOf(section, "Figures"))
    IN  [k \in DOMAIN rows |-> Block("figrow", s, rows[k])]

\* _render_section with the tables rendered ahead of the bullets.
RenderSectionTablesFirst(section, s) ==
    <<Block("section", s, "")>> \o HtmlHeading(section, s) \o HtmlParagraphs(section, s)
    \o HtmlTables(section, s) \o HtmlBullets(section, s) \o HtmlFigures(section, s)
    \o <<Block("/section", s, "")>>

\* _render_section: the chunks of one section, in the order they are
\* appended to html_chunks.
_render_section(section, s) ==
    <<Block("section", s, "")>> \o HtmlHeading(section, s) \o HtmlParagraphs(section, s)
    \o HtmlBullets(section, s) \o HtmlTables(section, s) \o HtmlFigures(section, s)
    \o <<Block("/section", s, "")>>

\* Lines 191-193: _add_table inserts a grid only if the table has rows; the
\* TypeParagraph after it runs for every table.
WordTables(section, s) ==
    LET tables == ListOf(section, "Tables")
    IN  Flatten([i \in DOMAIN tables |->
            (IF RowsOf(tables[i]) # <<>> THEN <<Block("table", s, tables[i])>> ELSE <<>>)
            \o <<Block("blank_table", s, "")>>])

\* Lines 195-197 with _add_figures and _add_figure_row: one borderless
\* table per figure row, each followed by TypeParagraph (line 271).
WordFigures(section, s) ==
    LET rows == FigureRows(ListOf(section, "Figures"))
    IN  Flatten([k \in DOMAIN rows |->
            <<Block("figrow", s, rows[k]), Block("blank_figrow", s, "")>>])

\* The loop body of _add_body_content: what one section types and inserts,
\* in order.  A bullet is typed with the glyph before it.
_add_body_content(section, s) ==
    LET paragraphs == ListOf(section, "Paragraphs")
        bullets == ListOf(section, "Bullets")
    IN  (IF HasTitle(section) THEN <<Block("heading", s, section["Title"])>> ELSE <<>>)
        \o [i \in DOMAIN paragraphs |-> Block("paragraph", s, paragraphs[i])]
        \o [i \in DOMAIN bullets |-> Block("bullet", s, bullets[i])]
        \o (IF bullets # <<>> THEN <<Block("blank_bullets", s, "")>> ELSE <<>>)
        \o WordTables(section, s) \o WordFigures(section, s)
        \o <<Block("break", s, "")>>

\* The inputs.  A section's shape: whether it has a title, how many
\* paragraphs and bullets it has, for each table whether it has rows, for
\* each figure its RowIndex (-1: none).  The items of a call are at most
\* MaxBlockItems in all.
BoundedSeqs(S, n) == UNION {[1..k -> S] : k \in 0..n}

SectionShapes(cost) ==
    { sh \in [titled : BOOLEAN, np : 0..cost, nb : 0..cost,
              tb : BoundedSeqs(BOOLEAN, cost), fg : BoundedSeqs({-1, 2}, cost)] :
        sh.np + sh.nb + Len(sh.tb) + Len(sh.fg) = cost }

RECURSIVE ShapeLists(_, _)
ShapeLists(k, budget) ==
    IF k = 0 THEN {<<>>}
    ELSE UNION { {<<sh>> \o rest : sh \in SectionShapes(c), rest \in ShapeLists(k - 1, budget - c)} :
                   c \in 0..budget }

\* What a section has nothing of is left out of the dict (sparse) or given
\* as an empty value: Title "", Paragraphs [] and so on.
GroupOpt(sparse, key, empty, value) ==
    IF value = empty THEN (IF sparse THEN EmptyDict ELSE key :> empty) ELSE key :> value

SectionOf(sh, sparse) ==
    GroupOpt(sparse, "Title", "", IF sh.titled THEN "A" ELSE "")
    @@ GroupOpt(sparse, "Paragraphs", <<>>, [i \in 1..sh.np |-> "p" \o ToString(i)])
    @@ GroupOpt(sparse, "Bullets", <<>>, [i \in 1..sh.nb |-> "b" \o ToString(i)])
    @@ GroupOpt(sparse, "Tables", <<>>,
                [i \in DOMAIN sh.tb |-> IF sh.tb[i] THEN [Rows |-> << <<"c" \o ToString(i)>> >>]
                                        ELSE [Header |-> <<"h">>]])
    @@ GroupOpt(sparse, "Figures", <<>>,
                [i \in DOMAIN sh.fg |-> IF sh.fg[i] = -1 THEN [Path |-> i]
                                        ELSE [Path |-> i, RowIndex |-> sh.fg[i]]])

\* A call: its sections and its options, the options with Author and
\* Company or, for a sparse call, without.
BlockInputs(maxSections, maxItems) ==
    UNION { { [secs |-> [s \in DOMAIN shapes |-> SectionOf(shapes[s], sparse)],
               options |-> IF sparse THEN EmptyDict ELSE [Author |-> "au", Company |-> "co"]] :
                shapes \in ShapeLists(k, maxItems), sparse \in BOOLEAN } :
            k \in 0..maxSections }

blkOthers == <<optVars, figVars, tabVars, subVars, callVars>>

\* generate_html_report, lines 444-457: the head and the <body> tag, then
\* the cover.
RenderCover ==
    /\ blkPc = "input"
    /\ emitted' = <<Block("preamble", 0, report_title)>> \o _render_cover_page(blkOptions)
    /\ blkIdx' = 1
    /\ blkPc' = "html"
    /\ UNCHANGED <<secList, blkOptions, blkOthers>>

\* One iteration of "for section in sections" (458-459).
RenderSection ==
    /\ blkPc = "html"
    /\ blkIdx <= Len(secList)
    /\ emitted' = emitted \o _render_section(secList[blkIdx], blkIdx)
    /\ blkIdx' = blkIdx + 1
    /\ UNCHANGED <<secList, blkOptions, blkPc, blkOthers>>

\* Line 461: "</body></html>" closes the markup.
RenderEnd ==
    /\ blkPc = "html"
    /\ blkIdx > Len(secList)
    /\ emitted' = Append(emitted, Block("trailer", 0, ""))
    /\ blkPc' = "htmldone"
    /\ UNCHANGED <<secList, blkOptions, blkIdx, blkOthers>>

\* generate_word_report, line 71: the document is emptied (WholeStory and
\* Delete) and the cover is typed.
AddCoverPage ==
    /\ blkPc = "input"
    /\ emitted' = _add_cover_page(blkOptions)
    /\ blkIdx' = 1
    /\ blkPc' = "word"
    /\ UNCHANGED <<secList, blkOptions, blkOthers>>

\* One iteration of "for section in sections" (166-199).
AddBodySection ==
    /\ blkPc = "word"
    /\ blkIdx <= Len(secList)
    /\ emitted' = emitted \o _add_body_content(secList[blkIdx], blkIdx)
    /\ blkIdx' = blkIdx + 1
    /\ UNCHANGED <<secList, blkOptions, blkPc, blkOthers>>

\* _add_body_content returns.
AddBodyDone ==
    /\ blkPc = "word"
    /\ blkIdx > Len(secList)
    /\ blkPc' = "worddone"
    /\ UNCHANGED <<secList, blkOptions, emitted, blkIdx, blkOthers>>

BlkNext ==
    \/ RenderCover
    \/ RenderSection
    \/ RenderEnd
    \/ AddCoverPage
    \/ AddBodySection
    \/ AddBodyDone

BlkDone == blkPc \in {"htmldone", "worddone"}

\* The group a block belongs to, by the statement that emits it: 1 heading,
\* 2 paragraphs, 3 bullets, 4 tables, 5 figures, 6 the section terminator.
GroupRank(kind) ==
    CASE kind \in {"section"} -> 0
      [] kind \in {"h2", "heading"} -> 1
      [] kind \in {"p", "paragraph"} -> 2
      [] kind \in {"ul", "li", "/ul", "bullet", "blank_bullets"} -> 3
      [] kind \in {"table", "blank_table"} -> 4
      [] kind \in {"figrow", "blank_figrow"} -> 5
      [] kind \in {"/section", "break"} -> 6
      [] OTHER -> -1

SecBlocks(s) == SelectSeq(emitted, LAMBDA b : b.sec = s)

ItemsOf(s, kinds) ==
    LET sel == SelectSeq(emitted, LAMBDA b : b.sec = s /\ b.kind \in kinds)
    IN  [i \in DOMAIN sel |-> sel[i].item]

\* What the caller gave for a group: nothing when the key is absent.
Given(s, key) == IF key \in DOMAIN secList[s] THEN secList[s][key] ELSE <<>>

\* After the document preamble the output starts with the cover block, and
\* every block of the cover precedes every block of a section.
CoverFirst ==
    LET body == SelectSeq(emitted, LAMBDA b : b.kind # "preamble")
    IN  /\ body # <<>>
        /\ body[1].kind = "cover"
        /\ body[1].item = report_title
        /\ \A i, j \in DOMAIN emitted :
              (emitted[i].sec > 0 /\ emitted[j].kind \in {"cover", "cover_line", "pagebreak"})
                  => j < i

\* One run of blocks per section, the runs in input order, each ended by
\* its one terminator.
SectionsInOrder ==
    /\ \A i, j \in DOMAIN emitted :
          (i < j /\ emitted[i].sec > 0 /\ emitted[j].sec > 0) => emitted[i].sec <= emitted[j].sec
    /\ \A i \in DOMAIN emitted : emitted[i].sec \in 0..Len(secList)
    /\ \A s \in DOMAIN secList :
          LET sb == SecBlocks(s)
          IN  /\ sb # <<>>
              /\ GroupRank(sb[Len(sb)].kind) = 6
              /\ Cardinality({i \in DOMAIN sb : GroupRank(sb[i].kind) = 6}) = 1

\* Within a section: heading, paragraphs, bullets, tables, figures, end.
GroupsInOrder ==
    \A s \in DOMAIN secList :
        LET sb == SecBlocks(s)
        IN  \A i, j \in DOMAIN sb : i < j => GroupRank(sb[i].kind) <= GroupRank(sb[j].kind)

\* The heading only for a non-empty title; paragraphs, bullets and the
\* tables that have rows each in input order.
TextGroupsKeepInputOrder ==
    \A s \in DOMAIN secList :
        /\ ItemsOf(s, {"h2", "heading"})
             = (IF "Title" \in DOMAIN secList[s] /\ secList[s]["Title"] # ""
                THEN <<secList[s]["Title"]>> ELSE <<>>)
        /\ ItemsOf(s, {"p", "paragraph"}) = Given(s, "Paragraphs")
        /\ ItemsOf(s, {"li", "bullet"}) = Given(s, "Bullets")
        /\ ItemsOf(s, {"table"})
             = SelectSeq(Given(s, "Tables"),
                         LAMBDA t : "Rows" \in DOMAIN t /\ Len(t["Rows"]) > 0)

\* A group the section omits (no key, or an empty list) emits no block.
OmittedGroupsEmitNothing ==
    \A s \in DOMAIN secList :
        LET sb == SecBlocks(s)
            Silent(rank) == \A i \in DOMAIN sb : GroupRank(sb[i].kind) # rank
        IN  /\ Len(Given(s, "Paragraphs")) = 0 => Silent(2)
            /\ Len(Given(s, "Bullets")) = 0 => Silent(3)
            /\ Len(Given(s, "Tables")) = 0 => Silent(4)
            /\ Len(Given(s, "Figures")) = 0 => Silent(5)

\* The figures of a section in the order their blocks hold them.
EmittedFigures(s) == Flatten(ItemsOf(s, {"figrow"}))

\* The figures group keeps the input order of the figures.
FiguresInInputOrder == \A s \in DOMAIN secList : EmittedFigures(s) = Given(s, "Figures")

\* The row a figure is laid out in: its RowIndex, 1 without one.
LayoutRow(fig) == IF "RowIndex" \in DOMAIN fig /\ fig["RowIndex"] # 0 THEN fig["RowIndex"] ELSE 1

\* The figures group holds every figure once, one block per row index, the
\* rows ascending and each row in input order (Path is the input position).
FiguresInRowOrder ==
    \A s \in DOMAIN secList :
        LET out == EmittedFigures(s)
            rows == ItemsOf(s, {"figrow"})
        IN  /\ Len(out) = Len(Given(s, "Figures"))
            /\ \A i \in DOMAIN out : Given(s, "Figures")[out[i].Path] = out[i]
            /\ \A i, j \in DOMAIN out :
                  i < j => \/ LayoutRow(out[i]) < LayoutRow(out[j])
                           \/ LayoutRow(out[i]) = LayoutRow(out[j]) /\ out[i].Path < out[j].Path
            /\ \A k \in DOMAIN rows :
                  /\ rows[k] # <<>>
                  /\ \A a \in DOMAIN rows[k] : LayoutRow(rows[k][a]) = LayoutRow(rows[k][1])
                  /\ \A l \in DOMAIN rows : k < l => LayoutRow(rows[k][1]) < LayoutRow(rows[l][1])

\* C11 as stated: the cover first, one run of blocks per section in input
\* order, within a section heading, paragraphs, bullets, tables, figures,
\* terminator, an omitted group emitting nothing and every group, the
\* figures included, keeping its input order.
C11_EveryGroupInInputOrder ==
    BlkDone => /\ CoverFirst /\ SectionsInOrder /\ GroupsInOrder
               /\ TextGroupsKeepInputOrder /\ OmittedGroupsEmitNothing
               /\ FiguresInInputOrder

\* C11 as amended: the same, except that the figures group is emitted in
\* layout order: one block per distinct row index, ascending, the figures
\* of a row in input order.
C11_BlockOrder ==
    BlkDone => /\ CoverFirst /\ SectionsInOrder /\ GroupsInOrder
               /\ TextGroupsKeepInputOrder /\ OmittedGroupsEmitNothing
               /\ FiguresInRowOrder

\* C11 witness: the HTML of one section with a title and two figures, the
\* first with RowIndex 2, is complete: heading, the second figure's row,
\* the first figure's row.
C11_Witness ==
    /\ blkPc = "htmldone"
    /\ Len(secList) = 1
    /\ [i \in DOMAIN emitted |-> emitted[i].kind]
         = <<"preamble", "cover", "section", "h2", "figrow", "figrow", "/section",
             "trailer">>
    /\ ItemsOf(1, {"figrow"}) = << <<[Path |-> 2]>>, <<[Path |-> 1, RowIndex |-> 2]>> >>

(***************************************************************************)
(* The specifications: each runs one part while the other parts stay idle. *)
(***************************************************************************)
\* The render calls, from every input, under every fault of the environment.
Init ==
    /\ sections \in SectionInputs
    /\ placeholders \in PlaceholderInputs
    /\ backend = "none" /\ pc = "idle" /\ secIdx = 1 /\ phIdx = 1
    /\ figs = <<>> /\ figIdx = 1 /\ temp_files = <<>> /\ delIdx = 1 /\ figCtx = "none"
    /\ exc = "none" /\ excAt = "none" /\ fs = {} /\ created = {}
    /\ wordState = "none" /\ docState = "none" /\ events = <<>>
    /\ outFile = "none" /\ refs = {} /\ result = "idle"
    /\ callerOptions = None /\ opts = None /\ opts2 = None /\ optPc = "idle"
    /\ figIn = <<>> /\ figRows = <<>> /\ figPc = "idle"
    /\ tableDef = EmptyDict /\ grid = NoGrid /\ cells = {} /\ tabErr = FALSE
    /\ htmlRows = <<>> /\ tabPc = "idle"
    /\ pieces = <<>> /\ mapping = <<>> /\ content = <<>> /\ subIdx = 1
    /\ searchStart = 1 /\ replaced = 0 /\ occAtStart = 0 /\ subPc = "idle"
    /\ secList = <<>> /\ blkOptions = EmptyDict /\ emitted = <<>> /\ blkIdx = 1
    /\ blkPc = "idle"

Spec == Init /\ [][Next]_vars

\* _merge_options on every options input, then on its own result.
InitOpt ==
    /\ callerOptions \in OptionInputs
    /\ opts = None /\ opts2 = None /\ optPc = "input"
    /\ figIn = <<>> /\ figRows = <<>> /\ figPc = "idle"
    /\ tableDef = EmptyDict /\ grid = NoGrid /\ cells = {} /\ tabErr = FALSE
    /\ htmlRows = <<>> /\ tabPc = "idle"
    /\ pieces = <<>> /\ mapping = <<>> /\ content = <<>> /\ subIdx = 1
    /\ searchStart = 1 /\ replaced = 0 /\ occAtStart = 0 /\ subPc = "idle"
    /\ sections = <<>> /\ placeholders = <<>>
    /\ backend = "none" /\ pc = "off" /\ secIdx = 1 /\ phIdx = 1
    /\ figs = <<>> /\ figIdx = 1 /\ temp_files = <<>> /\ delIdx = 1 /\ figCtx = "none"
    /\ exc = "none" /\ excAt = "none" /\ fs = {} /\ created = {}
    /\ wordState = "none" /\ docState = "none" /\ events = <<>>
    /\ outFile = "none" /\ refs = {} /\ result = "idle"
    /\ secList = <<>> /\ blkOptions = EmptyDict /\ emitted = <<>> /\ blkIdx = 1
    /\ blkPc = "idle"

SpecOpt == InitOpt /\ [][OptNext]_vars

\* The figure row layout on every list of resolved figures.
InitFig ==
    /\ figIn \in FigureLists
    /\ figRows = <<>> /\ figPc = "input"
    /\ callerOptions = None /\ opts = None /\ opts2 = None /\ optPc = "idle"
    /\ tableDef = EmptyDict /\ grid = NoGrid /\ cells = {} /\ tabErr = FALSE
    /\ htmlRows = <<>> /\ tabPc = "idle"
    /\ pieces = <<>> /\ mapping = <<>> /\ content = <<>> /\ subIdx = 1
    /\ searchStart = 1 /\ replaced = 0 /\ occAtStart = 0 /\ subPc = "idle"
    /\ sections = <<>> /\ placeholders = <<>>
    /\ backend = "none" /\ pc = "off" /\ secIdx = 1 /\ phIdx = 1
    /\ figs = <<>> /\ figIdx = 1 /\ temp_files = <<>> /\ delIdx = 1 /\ figCtx = "none"
    /\ exc = "none" /\ excAt = "none" /\ fs = {} /\ created = {}
    /\ wordState = "none" /\ docState = "none" /\ events = <<>>
    /\ outFile = "none" /\ refs = {} /\ result = "idle"
    /\ secList = <<>> /\ blkOptions = EmptyDict /\ emitted = <<>> /\ blkIdx = 1
    /\ blkPc = "idle"

SpecFig == InitFig /\ [][FigNext]_vars

\* The table layout on every table spec.
InitTable ==
    /\ tableDef \in TableDefs
    /\ grid = NoGrid /\ cells = {} /\ tabErr = FALSE /\ htmlRows = <<>> /\ tabPc = "input"
    /\ callerOptions = None /\ opts = None /\ opts2 = None /\ optPc = "idle"
    /\ figIn = <<>> /\ figRows = <<>> /\ figPc = "idle"
    /\ pieces = <<>> /\ mapping = <<>> /\ content = <<>> /\ subIdx = 1
    /\ searchStart = 1 /\ replaced = 0 /\ occAtStart = 0 /\ subPc = "idle"
    /\ sections = <<>> /\ placeholders = <<>>
    /\ backend = "none" /\ pc = "off" /\ secIdx = 1 /\ phIdx = 1
    /\ figs = <<>> /\ figIdx = 1 /\ temp_files = <<>> /\ delIdx = 1 /\ figCtx = "none"
    /\ exc = "none" /\ excAt = "none" /\ fs = {} /\ created = {}
    /\ wordState = "none" /\ docState = "none" /\ events = <<>>
    /\ outFile = "none" /\ refs = {} /\ result = "idle"
    /\ secList = <<>> /\ blkOptions = EmptyDict /\ emitted = <<>> /\ blkIdx = 1
    /\ blkPc = "idle"

SpecTable == InitTable /\ [][TabNext]_vars

\* The substitution of both backends on every text and mapping.
InitSubst ==
    /\ pieces \in PieceLists
    /\ mapping \in Mappings
    /\ content = <<>> /\ subIdx = 1 /\ searchStart = 1 /\ replaced = 0 /\ occAtStart = 0
    /\ subPc = "input"
    /\ callerOptions = None /\ opts = None /\ opts2 = None /\ optPc = "idle"
    /\ figIn = <<>> /\ figRows = <<>> /\ figPc = "idle"
    /\ tableDef = EmptyDict /\ grid = NoGrid /\ cells = {} /\ tabErr = FALSE
    /\ htmlRows = <<>> /\ tabPc = "idle"
    /\ sections = <<>> /\ placeholders = <<>>
    /\ backend = "none" /\ pc = "off" /\ secIdx = 1 /\ phIdx = 1
    /\ figs = <<>> /\ figIdx = 1 /\ temp_files = <<>> /\ delIdx = 1 /\ figCtx = "none"
    /\ exc = "none" /\ excAt = "none" /\ fs = {} /\ created = {}
    /\ wordState = "none" /\ docState = "none" /\ events = <<>>
    /\ outFile = "none" /\ refs = {} /\ result = "idle"
    /\ secList = <<>> /\ blkOptions = EmptyDict /\ emitted = <<>> /\ blkIdx = 1
    /\ blkPc = "idle"

SpecSubst == InitSubst /\ [][SubNext]_vars

\* The block sequence of both backends on every section list.
InitBlocks ==
    /\ \E call \in BlockInputs(MaxBlockSections, MaxBlockItems) :
          secList = call.secs /\ blkOptions = call.options
    /\ emitted = <<>> /\ blkIdx = 1 /\ blkPc = "input"
    /\ callerOptions = None /\ opts = None /\ opts2 = None /\ optPc = "idle"
    /\ figIn = <<>> /\ figRows = <<>> /\ figPc = "idle"
    /\ tableDef = EmptyDict /\ grid = NoGrid /\ cells = {} /\ tabErr = FALSE
    /\ htmlRows = <<>> /\ tabPc = "idle"
    /\ pieces = <<>> /\ mapping = <<>> /\ content = <<>> /\ subIdx = 1
    /\ searchStart = 1 /\ replaced = 0 /\ occAtStart = 0 /\ subPc = "idle"
    /\ sections = <<>> /\ placeholders = <<>>
    /\ backend = "none" /\ pc = "off" /\ secIdx = 1 /\ phIdx = 1
    /\ figs = <<>> /\ figIdx = 1 /\ temp_files = <<>> /\ delIdx = 1 /\ figCtx = "none"
    /\ exc = "none" /\ excAt = "none" /\ fs = {} /\ created = {}
    /\ wordState = "none" /\ docState = "none" /\ events = <<>>
    /\ outFile = "none" /\ refs = {} /\ result = "idle"

SpecBlocks == InitBlocks /\ [][BlkNext]_vars

=============================================================================
